---- MODULE Spec2Model ----
(***************************************************************************)
(* Model of smart_invoice_extractor.py: the text resolution functions, the *)
(* heuristic field extractor and the batch loop that drives them.          *)
(*                                                                         *)
(* A Python str is a sequence of one-character strings, so that len(),     *)
(* indexing, strip(), split(), title() and the regular expressions act on  *)
(* characters as the code does.  A dict is a sequence of key/value entries *)
(* in insertion order.                                                     *)
(***************************************************************************)
EXTENDS Integers, Sequences, FiniteSets

VARIABLES uploaded_files, idx, results, pc, exc, text, fallback, data, epc

vars == <<uploaded_files, idx, results, pc, exc, text, fallback, data, epc>>

-----------------------------------------------------------------------------
(* Characters and the str methods the code calls.                          *)

LowerSeq == <<"a", "b", "c", "d", "e", "f", "g", "h", "i", "j", "k", "l", "m", "n", "o", "p", "q", "r", "s", "t", "u", "v", "w", "x", "y", "z">>
UpperSeq == <<"A", "B", "C", "D", "E", "F", "G", "H", "I", "J", "K", "L", "M", "N", "O", "P", "Q", "R", "S", "T", "U", "V", "W", "X", "Y", "Z">>
DigitSeq == <<"0", "1", "2", "3", "4", "5", "6", "7", "8", "9">>

Range(f) == {f[j] : j \in DOMAIN f}

LowerLetters == Range(LowerSeq)
UpperLetters == Range(UpperSeq)
Letters == LowerLetters \cup UpperLetters
Digits == Range(DigitSeq)

\* What str.strip() removes and what \s matches, among the characters a
\* TLA+ string can hold (no vertical tab, no non-ASCII space).
Whitespace == {" ", "\t", "\n", "\r", "\f"}

IndexOf(c, seq) == CHOOSE j \in DOMAIN seq : seq[j] = c

LowerChar(c) == IF c \in UpperLetters THEN LowerSeq[IndexOf(c, UpperSeq)] ELSE c
UpperChar(c) == IF c \in LowerLetters THEN UpperSeq[IndexOf(c, LowerSeq)] ELSE c

\* s[a:b] of Python with 1-based inclusive bounds: the characters a..b.
Slice(s, a, b) == [j \in 1..(b - a + 1) |-> s[a + j - 1]]

\* str.lower()
lower(s) == [j \in DOMAIN s |-> LowerChar(s[j])]

\* str.title(): a letter is upper-cased when it starts a run of letters
\* and lower-cased otherwise; other characters are kept.
title(s) ==
  [j \in DOMAIN s |->
     IF j = 1 \/ s[j - 1] \notin Letters THEN UpperChar(s[j]) ELSE LowerChar(s[j])]

\* str.strip(): drop leading and trailing whitespace.
strip(s) ==
  LET keep == {j \in DOMAIN s : s[j] \notin Whitespace}
  IN  IF keep = {} THEN <<>>
      ELSE LET a == CHOOSE j \in keep : \A k \in keep : j <= k
               b == CHOOSE j \in keep : \A k \in keep : j >= k
           IN  Slice(s, a, b)

\* str.split("\n"): the pieces between newlines, empty pieces included.
RECURSIVE SplitFrom(_, _)
SplitFrom(s, a) ==
  LET nl == {j \in a..Len(s) : s[j] = "\n"}
  IN  IF nl = {} THEN <<Slice(s, a, Len(s))>>
      ELSE LET b == CHOOSE j \in nl : \A k \in nl : j <= k
           IN  <<Slice(s, a, b - 1)>> \o SplitFrom(s, b + 1)

split(s) == SplitFrom(s, 1)

\* str.replace(c, ""): delete every occurrence of the character c.
Remove(s, c) == SelectSeq(s, LAMBDA x : x # c)

\* needle in s
Contains(s, needle) ==
  \E a \in 1..(Len(s) - Len(needle) + 1) : Slice(s, a, a + Len(needle) - 1) = needle

\* str.endswith(suffix)
endswith(s, suffix) ==
  /\ Len(s) >= Len(suffix)
  /\ Slice(s, Len(s) - Len(suffix) + 1, Len(s)) = suffix

\* The concatenation of the sequences ss[a], ..., ss[b], in order.
RECURSIVE FlattenRange(_, _, _)
FlattenRange(ss, a, b) ==
  IF a > b THEN <<>>
  ELSE IF a = b THEN ss[a]
  ELSE LET mid == (a + b) \div 2
       IN  FlattenRange(ss, a, mid) \o FlattenRange(ss, mid + 1, b)

Flatten(ss) == FlattenRange(ss, 1, Len(ss))

-----------------------------------------------------------------------------
(* Regular expressions: a backtracking matcher in the order of Python's    *)
(* re module.  M returns every way the expression can match at position i, *)
(* the preferred way first; re takes the first.                            *)

\* Every quantifier of the five expressions of the code applies to one
\* character or one character class, so Rep takes a one-character
\* expression: Set(cs), or Dot for "." (anything but a newline).
Unbounded == -1

Set(cs) == [t |-> "set", cs |-> cs]
Dot == [t |-> "any"]
Cat(rs) == [t |-> "cat", rs |-> rs]
Alt(rs) == [t |-> "alt", rs |-> rs]
Rep(r, lo, hi) == [t |-> "rep", r |-> r, lo |-> lo, hi |-> hi]
Grp(n, r) == [t |-> "grp", n |-> n, r |-> r]

Star(r) == Rep(r, 0, Unbounded)
Plus(r) == Rep(r, 1, Unbounded)
Opt(r) == Rep(r, 0, 1)

\* A literal word under re.I: each letter matches in either case.
Lit(w) == Cat([j \in DOMAIN w |-> Set({LowerChar(w[j]), UpperChar(w[j])})])

\* A character class under re.I.
IgnoreCase(cs) == cs \cup {LowerChar(c) : c \in cs} \cup {UpperChar(c) : c \in cs}

NoGroups == <<<<0, 0>>, <<0, 0>>>>

CharOK(r, c) == IF r.t = "set" THEN c \in r.cs ELSE c # "\n"

\* How many characters from position i on the one-character expression r
\* accepts in a row, at most hi of them.
Run(r, s, i, hi) ==
  LET bad  == {j \in i..Len(s) : ~CharOK(r, s[j])}
      stop == IF bad = {} THEN Len(s) + 1 ELSE CHOOSE j \in bad : \A k \in bad : j <= k
  IN  IF hi # Unbounded /\ stop - i > hi THEN hi ELSE stop - i

RECURSIVE M(_, _, _, _)
M(r, s, i, g) ==
  CASE r.t \in {"set", "any"} ->
         IF i <= Len(s) /\ CharOK(r, s[i]) THEN <<[e |-> i + 1, g |-> g]>> ELSE <<>>
    [] r.t = "grp" ->
         LET inner == M(r.r, s, i, g)
         IN  [k \in DOMAIN inner |->
                [e |-> inner[k].e, g |-> [inner[k].g EXCEPT ![r.n] = <<i, inner[k].e>>]]]
    [] r.t = "alt" ->
         Flatten([k \in DOMAIN r.rs |-> M(r.rs[k], s, i, g)])
    [] r.t = "cat" ->
         IF Len(r.rs) = 0 THEN <<[e |-> i, g |-> g]>>
         ELSE LET first == M(Head(r.rs), s, i, g)
              IN  Flatten([k \in DOMAIN first |->
                             M(Cat(Tail(r.rs)), s, first[k].e, first[k].g)])
    [] r.t = "rep" ->
         \* greedy: the longest run first, then one character less at a time
         LET n == Run(r.r, s, i, r.hi)
         IN  [k \in 1..(n - r.lo + 1) |-> [e |-> i + n - k + 1, g |-> g]]

\* A match object, or NoMatch for None.
NoMatch == [found |-> FALSE]

\* The preferred one of the ways ms to match at position i.
First(ms, i) ==
  IF Len(ms) = 0 THEN NoMatch
  ELSE [found |-> TRUE, start |-> i, end |-> ms[1].e, g |-> ms[1].g]

MatchAt(r, s, i) == First(M(r, s, i, NoGroups), i)

\* re.match: at the start of the string only.
match(r, s) == MatchAt(r, s, 1)

\* re.search: the leftmost position at which the expression matches.
Leftmost(r, s, at) ==
  IF at = {} THEN NoMatch
  ELSE MatchAt(r, s, CHOOSE i \in at : \A k \in at : i <= k)

search(r, s) == Leftmost(r, s, {i \in 1..(Len(s) + 1) : MatchAt(r, s, i).found})

\* m.group(n)
group(m, s, n) == Slice(s, m.g[n][1], m.g[n][2] - 1)

-----------------------------------------------------------------------------
(* The FieldMap: a dict, kept as its entries in insertion order.           *)

HasKey(d, k) == \E j \in DOMAIN d : d[j].k = k

Get(d, k) == d[CHOOSE j \in DOMAIN d : d[j].k = k].v

\* d[k] = v: a key already present keeps its place and takes the new value.
Put(d, k, v) ==
  IF HasKey(d, k)
  THEN [j \in DOMAIN d |-> IF d[j].k = k THEN [k |-> k, v |-> v] ELSE d[j]]
  ELSE Append(d, [k |-> k, v |-> v])

Keys(d) == {d[j].k : j \in DOMAIN d}

K_InvoiceNo == <<"I", "n", "v", "o", "i", "c", "e", " ", "N", "o">>
K_InvoiceDate == <<"I", "n", "v", "o", "i", "c", "e", " ", "D", "a", "t", "e">>
K_CustomerName == <<"C", "u", "s", "t", "o", "m", "e", "r", " ", "N", "a", "m", "e">>
K_TotalAmount == <<"T", "o", "t", "a", "l", " ", "A", "m", "o", "u", "n", "t">>
K_InvoiceType == <<"I", "n", "v", "o", "i", "c", "e", " ", "T", "y", "p", "e">>
K_Filename == <<"F", "i", "l", "e", "n", "a", "m", "e">>
K_Status == <<"S", "t", "a", "t", "u", "s">>
V_TaxInvoice == <<"T", "a", "x", " ", "I", "n", "v", "o", "i", "c", "e">>
V_Success == <<"S", "u", "c", "c", "e", "s", "s">>
V_OCRFailed == <<"O", "C", "R", " ", "F", "a", "i", "l", "e", "d">>

-----------------------------------------------------------------------------
(* float(): the captured total is a digit followed by digits and periods   *)
(* (commas already removed).  Python parses it when it holds at most one   *)
(* period and raises ValueError otherwise.  The value is kept as a decimal *)
(* mant / 10^exp in lowest form, so that "1250.00" and "1250" are one      *)
(* number; binary rounding is not modelled.                                *)

DigitValue(c) == IndexOf(c, DigitSeq) - 1

RECURSIVE Num(_)
Num(ds) == IF Len(ds) = 0 THEN 0 ELSE 10 * Num(SubSeq(ds, 1, Len(ds) - 1)) + DigitValue(ds[Len(ds)])

RECURSIVE DropTrailingZeros(_)
DropTrailingZeros(ds) ==
  IF Len(ds) > 0 /\ ds[Len(ds)] = "0" THEN DropTrailingZeros(SubSeq(ds, 1, Len(ds) - 1)) ELSE ds

CanParseFloat(s) ==
  /\ Cardinality({j \in DOMAIN s : s[j] = "."}) <= 1
  /\ \E j \in DOMAIN s : s[j] \in Digits
  /\ \A j \in DOMAIN s : s[j] \in Digits \cup {"."}

float(s) ==
  LET dots == {j \in DOMAIN s : s[j] = "."}
      p    == IF dots = {} THEN Len(s) + 1 ELSE CHOOSE j \in dots : TRUE
      frac == DropTrailingZeros(SubSeq(s, p + 1, Len(s)))
  IN  [mant |-> Num(SubSeq(s, 1, p - 1) \o frac), exp |-> Len(frac)]

-----------------------------------------------------------------------------
(* auto_extract_fields                                                     *)

\* An exception leaving a function; exc names the call that raised it.
Raise(e) == [raised |-> TRUE, exc |-> e]

WS == Star(Set(Whitespace))
Sep == Set({":", "-"})
D == Set(Digits)

\* ([A-Za-z\s\.\-%/]+)\s*[:\-]\s*(.+)
LabelChars == Letters \cup Whitespace \cup {".", "-", "%", "/"}
GenericRe_NoHyphen ==
  Cat(<<Grp(1, Plus(Set(LabelChars \ {"-"}))), WS, Sep, WS, Grp(2, Plus(Dot))>>)

GenericRe ==
  Cat(<<Grp(1, Plus(Set(LabelChars))), WS, Sep, WS, Grp(2, Plus(Dot))>>)

\* Invoice\s*No\.?\s*[:\-]?\s*([A-Z0-9\/\-]+)   (re.I)
InvoiceNoRe ==
  Cat(<<Lit(<<"I", "n", "v", "o", "i", "c", "e">>), WS, Lit(<<"N", "o">>), Opt(Set({"."})), WS, Opt(Sep), WS,
        Grp(1, Plus(Set(IgnoreCase(UpperLetters \cup Digits \cup {"/", "-"}))))>>)

\* Invoice\s*Date\s*[:\-]?\s*(\d{1,2}[/-]\d{1,2}[/-]\d{4})   (re.I)
InvoiceDateRe ==
  Cat(<<Lit(<<"I", "n", "v", "o", "i", "c", "e">>), WS, Lit(<<"D", "a", "t", "e">>), WS, Opt(Sep), WS,
        Grp(1, Cat(<<Rep(D, 1, 2), Set({"/", "-"}), Rep(D, 1, 2), Set({"/", "-"}),
                     Rep(D, 4, 4)>>))>>)

\* (Customer|Client|Bill\s*To)\s*Name?\s*[:\-]?\s*([A-Za-z\s]+)   (re.I)
\* Name? is N, a, m and an optional e.
CustomerRe ==
  Cat(<<Grp(1, Alt(<<Lit(<<"C", "u", "s", "t", "o", "m", "e", "r">>), Lit(<<"C", "l", "i", "e", "n", "t">>),
                     Cat(<<Lit(<<"B", "i", "l", "l">>), WS, Lit(<<"T", "o">>)>>)>>)),
        WS, Lit(<<"N", "a", "m">>), Opt(Set({"e", "E"})), WS, Opt(Sep), WS,
        Grp(2, Plus(Set(Letters \cup Whitespace)))>>)

\* (Grand\s*Total|Total\s*Amount)\s*[:\-]?\s*(\d[\d,\.]*)   (re.I)
TotalRe ==
  Cat(<<Grp(1, Alt(<<Cat(<<Lit(<<"G", "r", "a", "n", "d">>), WS, Lit(<<"T", "o", "t", "a", "l">>)>>),
                     Cat(<<Lit(<<"T", "o", "t", "a", "l">>), WS, Lit(<<"A", "m", "o", "u", "n", "t">>)>>)>>)),
        WS, Opt(Sep), WS,
        Grp(2, Cat(<<D, Star(Set(Digits \cup {",", "."}))>>))>>)

\* lines = [l.strip() for l in text.split("\n") if len(l.strip()) > 2]
Lines(t) ==
  LET raw == split(t)
  IN  SelectSeq([j \in DOMAIN raw |-> strip(raw[j])], LAMBDA l : Len(l) > 2)

\* if len(key) < 40 and len(value) < 120: data[key] = value
StoreShort(d, key, value) ==
  IF Len(key) < 40 /\ Len(value) < 120 THEN Put(d, key, value) ELSE d

\* if m: key = m.group(1).strip().title(); value = m.group(2).strip()
StoreGeneric(d, line, m) ==
  IF m.found
  THEN StoreShort(d, title(strip(group(m, line, 1))), strip(group(m, line, 2)))
  ELSE d

\* The body of the loop over lines: one generic KEY : VALUE line.
GenericLine(d, line) == StoreGeneric(d, line, match(GenericRe, line))

RECURSIVE ScanLines(_, _)
ScanLines(d, ls) ==
  IF Len(ls) = 0 THEN d ELSE ScanLines(GenericLine(d, Head(ls)), Tail(ls))

\* Generic KEY : VALUE
GenericKeyValue(t) == ScanLines(<<>>, Lines(t))

\* data.setdefault("Invoice No", m.group(1)): a value already there stays.
StoreInvoiceNo_IfAbsent(d, t, m) ==
  IF m.found /\ ~HasKey(d, K_InvoiceNo) THEN Put(d, K_InvoiceNo, group(m, t, 1)) ELSE d

\* if m: data["Invoice No"] = m.group(1)
StoreInvoiceNo(d, t, m) == IF m.found THEN Put(d, K_InvoiceNo, group(m, t, 1)) ELSE d

\* Invoice Number
InvoiceNumber(d, t) == StoreInvoiceNo(d, t, search(InvoiceNoRe, t))

\* if m: data["Invoice Date"] = m.group(1)
StoreInvoiceDate(d, t, m) == IF m.found THEN Put(d, K_InvoiceDate, group(m, t, 1)) ELSE d

\* Invoice Date
InvoiceDate(d, t) == StoreInvoiceDate(d, t, search(InvoiceDateRe, t))

\* if m: data["Customer Name"] = m.group(2).strip()
StoreCustomer(d, t, m) ==
  IF m.found THEN Put(d, K_CustomerName, strip(group(m, t, 2))) ELSE d

\* Customer / Bill To
CustomerBillTo(d, t) == StoreCustomer(d, t, search(CustomerRe, t))

\* if m: data["Total Amount"] = float(m.group(2).replace(",", ""))
\* float() raises ValueError on what it cannot parse; nothing catches it.
TotalRaises(t, m) == m.found /\ ~CanParseFloat(Remove(group(m, t, 2), ","))

StoreTotal(d, t, m) ==
  IF m.found THEN Put(d, K_TotalAmount, float(Remove(group(m, t, 2), ","))) ELSE d

\* Total Amount
TotalAmount(d, t) == StoreTotal(d, t, search(TotalRe, t))

\* Invoice Type
InvoiceType(d, t) ==
  IF Contains(lower(t), <<"t", "a", "x", " ", "i", "n", "v", "o", "i", "c", "e">>) THEN Put(d, K_InvoiceType, V_TaxInvoice) ELSE d

\* The targeted fields, in the order of the code, applied to the dict the
\* generic scan filled.  raised: the ValueError of float() leaves the
\* function and no dict is returned.
TargetedFields(d, t) ==
  IF TotalRaises(t, search(TotalRe, t)) THEN Raise("float")
  ELSE [raised |-> FALSE,
        data |-> InvoiceType(TotalAmount(CustomerBillTo(InvoiceDate(InvoiceNumber(d, t), t), t), t), t)]

auto_extract_fields(t) == TargetedFields(GenericKeyValue(t), t)

-----------------------------------------------------------------------------
(* Text resolution.  A document is what the libraries make of the uploaded *)
(* bytes: readable says whether Image.open / fitz.open accept the file     *)
(* (they raise on a corrupt one), pages is the text layer page by page,    *)
(* ocr is what tesseract reads on each rendered page (one page for an      *)
(* image) and ocr_ok says whether rendering and tesseract succeed (they    *)
(* raise otherwise).  No call in the code is wrapped in try/except.        *)

Threshold == 100


Returned(t, fb) == [raised |-> FALSE, text |-> t, fallback |-> fb]

extract_text_from_image(doc) ==
  IF ~doc.readable THEN Raise("Image.open")
  ELSE IF ~doc.ocr_ok THEN Raise("ocr")
  ELSE Returned(doc.ocr[1], FALSE)

\* "<= 100": the threshold taken inclusively.
NeedsFallback_Inclusive(t) == Len(strip(t)) <= Threshold

\* OCR fallback if PDF text is weak
NeedsFallback(t) == Len(strip(t)) < Threshold

\* for img in convert_from_path(path): text += pytesseract.image_to_string(img)
Fallback(doc, layer) ==
  IF ~doc.ocr_ok THEN Raise("ocr") ELSE Returned(layer \o Flatten(doc.ocr), TRUE)

\* if len(text.strip()) < 100: ...; return text
AfterLayer(doc, layer) ==
  IF NeedsFallback(layer) THEN Fallback(doc, layer) ELSE Returned(layer, FALSE)

\* text += page.get_text() for each page, then the fallback.
extract_text_from_pdf(doc) ==
  IF ~doc.readable THEN Raise("fitz.open") ELSE AfterLayer(doc, Flatten(doc.pages))

-----------------------------------------------------------------------------
(* process_file                                                            *)

temp_dir == <<"/", "t", "m", "p", "/", "t">>

\* os.path.join(temp_dir, file.name)
Path(doc) == temp_dir \o <<"/">> \o doc.name

\* os.path.basename(path)
basename(path) ==
  LET sl == {j \in DOMAIN path : path[j] = "/"}
  IN  IF sl = {} THEN path
      ELSE Slice(path, (CHOOSE j \in sl : \A k \in sl : j >= k) + 1, Len(path))

IsPdf(path) == endswith(lower(path), <<".", "p", "d", "f">>)

\* if path.lower().endswith(".pdf"): ... else: ...
ResolveText(doc) ==
  IF IsPdf(Path(doc)) THEN extract_text_from_pdf(doc) ELSE extract_text_from_image(doc)

\* "if not text": the test without strip().
IsBlank_NoStrip(t) == Len(t) = 0

\* if not text.strip()
IsBlank(t) == Len(strip(t)) = 0

\* The rest of process_file once the text is resolved.
\* data["Filename"] = ...; data["Status"] = "Success"; return data
Success(name, r) ==
  IF r.raised THEN r
  ELSE [raised |-> FALSE, rec |-> Put(Put(r.data, K_Filename, name), K_Status, V_Success)]

\* return {"Filename": ..., "Status": "OCR Failed"}
OCRFailed(name) ==
  [raised |-> FALSE,
   rec |-> <<[k |-> K_Filename, v |-> name], [k |-> K_Status, v |-> V_OCRFailed]>>]

\* The rest of process_file once the text is resolved.
MakeRecord(path, t) ==
  IF IsBlank(t) THEN OCRFailed(basename(path))
  ELSE Success(basename(path), auto_extract_fields(t))

AfterResolve(path, r) == IF r.raised THEN r ELSE MakeRecord(path, r.text)

process_file(doc) == AfterResolve(Path(doc), ResolveText(doc))

-----------------------------------------------------------------------------
(* The inputs.                                                             *)

MaxBatch == 2
MaxLineLen == 4

Chars(c, n) == [j \in 1..n |-> c]

ExampleText == <<"I", "n", "v", "o", "i", "c", "e", " ", "N", "o", ":", " ", "I", "N", "V", "-", "2", "0", "2", "4", "-", "0", "0", "1", "\n", "I", "n", "v", "o", "i", "c", "e", " ", "D", "a", "t", "e", ":", " ", "0", "5", "/", "0", "6", "/", "2", "0", "2", "4", "\n", "B", "i", "l", "l", " ", "T", "o", " ", "N", "a", "m", "e", ":", " ", "A", "c", "m", "e", " ", "C", "o", "r", "p", "\n", "G", "r", "a", "n", "d", " ", "T", "o", "t", "a", "l", ":", " ", "1", ",", "2", "5", "0", ".", "0", "0", "\n", "T", "h", "i", "s", " ", "i", "s", " ", "a", " ", "T", "a", "x", " ", "I", "n", "v", "o", "i", "c", "e">>
T_Blank == <<" ", "\n", "\t", " ">>
T_NoMatch == <<"h", "e", "l", "l", "o", " ", "w", "o", "r", "l", "d">>
T_BadTotal == <<"R", "e", "f", ":", " ", "7", "\n", "G", "r", "a", "n", "d", " ", "T", "o", "t", "a", "l", ":", " ", "1", ".", "2", ".", "3">>
T_Scan == <<"I", "n", "v", "o", "i", "c", "e", " ", "N", "o", ":", " ", "A", "B", "C", "-", "1", "\n">>

Image(name, ok, t, ocr_ok) ==
  [name |-> name, readable |-> ok, pages |-> <<>>, ocr |-> <<t>>, ocr_ok |-> ocr_ok]

\* A two-page PDF whose text layer strips to n characters, with whitespace
\* around it when pad is set.
Pdf(name, ok, n, pad, t, ocr_ok) ==
  [name |-> name, readable |-> ok,
   pages |-> <<(IF pad THEN <<" ">> ELSE <<>>) \o Chars("x", n \div 2),
               Chars("y", n - n \div 2) \o (IF pad THEN <<"\n">> ELSE <<>>)>>,
   ocr |-> <<t, t>>, ocr_ok |-> ocr_ok]

Docs ==
  { Image(<<"a", ".", "p", "n", "g">>, TRUE, ExampleText, TRUE),
    Image(<<"b", ".", "j", "p", "g">>, FALSE, <<>>, TRUE),
    Image(<<"c", ".", "j", "p", "e", "g">>, TRUE, T_Blank, TRUE),
    Image(<<"d", ".", "P", "N", "G">>, TRUE, T_NoMatch, TRUE),
    Image(<<"e", ".", "p", "n", "g">>, TRUE, T_BadTotal, TRUE),
    Pdf(<<"f", ".", "p", "d", "f">>, TRUE, Threshold - 1, TRUE, T_Scan, TRUE),
    Pdf(<<"g", ".", "P", "D", "F">>, TRUE, Threshold, TRUE, T_Scan, FALSE),
    Pdf(<<"h", ".", "p", "d", "f">>, TRUE, 0, TRUE, <<"\n">>, TRUE),
    Pdf(<<"i", ".", "p", "d", "f">>, TRUE, Threshold - 1, FALSE, T_Scan, FALSE),
    Pdf(<<"j", ".", "p", "d", "f">>, FALSE, 0, FALSE, <<>>, TRUE),
    Pdf(<<"k", ".", "p", "d", "f">>, TRUE, Threshold + 1, FALSE, T_Scan, TRUE) }

Batches == UNION {[1..n -> Docs] : n \in 0..MaxBatch}

\* Short lines over a small alphabet: a letter, a space, the two
\* separators and a character that is neither label nor separator.
Alphabet == {"a", " ", ":", "-", "1"}
ShortLines == UNION {[1..n -> Alphabet] : n \in 0..MaxLineLen}

Labels ==
  { <<"I", "n", "v", "o", "i", "c", "e", " ", "N", "o">>, <<"i", "n", "v", "o", "i", "c", "e", " ", "n", "o", ".">>, <<"I", "n", "v", "o", "i", "c", "e", " ", "D", "a", "t", "e">>, <<"C", "u", "s", "t", "o", "m", "e", "r">>, <<"C", "u", "s", "t", "o", "m", "e", "r", " ", "N", "a", "m", "e">>,
    <<"C", "L", "I", "E", "N", "T">>, <<"B", "i", "l", "l", " ", "T", "o">>, <<"B", "i", "l", "l", " ", "T", "o", " ", "N", "a", "m", "e">>, <<"G", "r", "a", "n", "d", " ", "T", "o", "t", "a", "l">>, <<"T", "o", "t", "a", "l", " ", "A", "m", "o", "u", "n", "t">>, <<"R", "e", "f">> }
Separators == { <<":", " ">>, <<" ", "-", " ">>, <<" ">>, <<":">> }
Values ==
  { <<"A", "B", "C", "-", "1">>, <<"I", "N", "V", "-", "7", " ", "x">>, <<"0", "5", "/", "0", "6", "/", "2", "0", "2", "4">>, <<"A", "c", "m", "e", " ", "C", "o", "r", "p">>, <<"1", ",", "2", "5", "0", ".", "0", "0">>, <<"1", ".", "2", ".", "3">>, <<"1", "0", "0", ".">>,
    <<"1", "2", ",", "3", "4", "5", ".", "6", "7">>, <<"T", "a", "x", " ", "I", "n", "v", "o", "i", "c", "e">> }
LabelledLines == {l \o p \o v : l \in Labels, p \in Separators, v \in Values}

Examples ==
  { ExampleText, T_Blank, T_NoMatch, T_BadTotal,
    <<"I", "n", "v", "o", "i", "c", "e", " ", "N", "o", ":", " ", "A", "B", "C", "-", "1", "\n", "I", "n", "v", "o", "i", "c", "e", " ", "N", "o", ":", " ", "X", "Y", "Z", "-", "2">>,
    <<"C", "u", "s", "t", "o", "m", "e", "r", " ", "N", "a", "m", "e", ":", " ", "A", "c", "m", "e", "\n", "C", "u", "s", "t", "o", "m", "e", "r", " ", "N", "a", "m", "e", ":", " ", "Z", "e", "d", " ", "L", "t", "d">>,
    <<"I", "n", "v", "o", "i", "c", "e", " ", "D", "a", "t", "e", ":", " ", "1", "/", "2", "/", "2", "0", "2", "4", "\n", "I", "n", "v", "o", "i", "c", "e", " ", "D", "a", "t", "e", ":", " ", "0", "3", "-", "0", "4", "-", "2", "0", "2", "5">>,
    <<"T", "o", "t", "a", "l", " ", "A", "m", "o", "u", "n", "t", ":", " ", "5", "\n", "T", "o", "t", "a", "l", " ", "A", "m", "o", "u", "n", "t", ":", " ", "6", ".", "5", "0">>,
    <<"B", "i", "l", "l", " ", "T", "o", "\n", "N", "a", "m", "e", " ", "-", " ", "B", "o", "b", "\n", "r", "e", "f", "-", "n", "o", "-", "x", ":", " ", "1", ":", " ", "2">>,
    Chars("a", 39) \o <<":", " ", "v">>,
    Chars("a", 40) \o <<":", " ", "v">>,
    <<"k", "-", "k", ":">> \o Chars("v", 119),
    <<"k", "-", "k", ":">> \o Chars("v", 120) }

Texts == ShortLines \cup LabelledLines \cup Examples

-----------------------------------------------------------------------------
(* The batch run: the "Start Extraction" button.                           *)

Init ==
  /\ uploaded_files \in Batches
  /\ idx = 0
  /\ results = <<>>
  /\ pc = "idle"
  /\ exc = "none"
  /\ text = <<>>
  /\ fallback = FALSE
  /\ data = <<>>
  /\ epc = "off"

\* if not uploaded_files: st.warning(...); st.stop()
\* results = []
StartExtraction ==
  /\ pc = "idle"
  /\ IF Len(uploaded_files) = 0
     THEN pc' = "stopped" /\ UNCHANGED idx
     ELSE pc' = "resolve" /\ idx' = 1
  /\ UNCHANGED <<uploaded_files, results, exc, text, fallback, data, epc>>

Resolved(r) ==
  IF r.raised
  THEN pc' = "raised" /\ exc' = r.exc /\ UNCHANGED <<text, fallback>>
  ELSE pc' = "extract" /\ text' = r.text /\ fallback' = r.fallback /\ UNCHANGED exc

Appended(r) ==
  IF r.raised
  THEN pc' = "raised" /\ exc' = r.exc /\ UNCHANGED <<results, idx>>
  ELSE pc' = "resolve" /\ results' = Append(results, r.rec) /\ idx' = idx + 1 /\ UNCHANGED exc

\* for file in uploaded_files: ... process_file(path), up to the resolved
\* text.  An exception leaves the loop and ends the script run.
Resolve ==
  /\ pc = "resolve"
  /\ idx <= Len(uploaded_files)
  /\ Resolved(ResolveText(uploaded_files[idx]))
  /\ UNCHANGED <<uploaded_files, idx, results, data, epc>>

\* ... the rest of process_file, and results.append(...)
Extract ==
  /\ pc = "extract"
  /\ Appended(MakeRecord(Path(uploaded_files[idx]), text))
  /\ UNCHANGED <<uploaded_files, text, fallback, data, epc>>

\* df = pd.DataFrame(results) ...: the loop has ended normally.
BuildReport ==
  /\ pc = "resolve"
  /\ idx > Len(uploaded_files)
  /\ pc' = "done"
  /\ UNCHANGED <<uploaded_files, idx, results, exc, text, fallback, data, epc>>

Next == StartExtraction \/ Resolve \/ Extract \/ BuildReport

Spec == Init /\ [][Next]_vars

-----------------------------------------------------------------------------
(* One call of auto_extract_fields, in its two phases.                     *)

ExtractInit ==
  /\ text \in Texts
  /\ data = <<>>
  /\ epc = "call"
  /\ uploaded_files = <<>>
  /\ idx = 0
  /\ results = <<>>
  /\ pc = "off"
  /\ exc = "none"
  /\ fallback = FALSE

\* return data, unless float() raised: then no dict reaches the caller.
Return(r) ==
  IF r.raised
  THEN epc' = "raised" /\ exc' = r.exc /\ data' = <<>>
  ELSE epc' = "returned" /\ data' = r.data /\ UNCHANGED exc

GenericScan ==
  /\ epc = "call"
  /\ data' = GenericKeyValue(text)
  /\ epc' = "scanned"
  /\ UNCHANGED <<uploaded_files, idx, results, pc, exc, text, fallback>>

Targeted ==
  /\ epc = "scanned"
  /\ Return(TargetedFields(data, text))
  /\ UNCHANGED <<uploaded_files, idx, results, pc, text, fallback>>

ExtractNext == GenericScan \/ Targeted

ExtractSpec == ExtractInit /\ [][ExtractNext]_vars

-----------------------------------------------------------------------------
(* The claims.                                                             *)

\* The documents on which process_file has ended, by return or by raise.
Handed == IF pc = "raised" THEN idx ELSE IF pc \in {"resolve", "extract", "done"} THEN idx - 1 ELSE 0

WellFormed(rec) ==
  /\ HasKey(rec, K_Filename)
  /\ HasKey(rec, K_Status)
  /\ Get(rec, K_Status) \in {V_Success, V_OCRFailed}

\* C1: every document handed to process_file yields exactly one Record,
\* and the Record holds Filename and a Status of Success or OCR Failed.
C1_OneRecordPerDocument ==
  /\ Len(results) = Handed
  /\ \A k \in DOMAIN results : WellFormed(results[k])

\* C2: a failure of one document never propagates: the run ends only with
\* one Record per uploaded document.
C2_BatchCompletes ==
  pc \in {"raised", "done"} => pc = "done" /\ Len(results) = Len(uploaded_files)

\* C3: text resolution never fails: no exception leaves
\* extract_text_from_image or extract_text_from_pdf, and a document whose
\* resolved text is empty gets the Record {Filename, Status = OCR Failed}.
C3_ResolutionNeverFails ==
  /\ exc \notin {"Image.open", "fitz.open", "ocr"}
  /\ (pc \in {"resolve", "done"} /\ idx > 1 /\ Len(text) = 0)
       => /\ Keys(results[idx - 1]) = {K_Filename, K_Status}
          /\ Get(results[idx - 1], K_Status) = V_OCRFailed

\* C4: field extraction never fails: auto_extract_fields returns a FieldMap
\* for every text, a total that cannot be parsed included.
C4_ExtractionNeverFails == epc # "raised"

AllWhitespace(t) == \A j \in DOMAIN t : t[j] \in Whitespace

NothingMatches(t) ==
  /\ GenericKeyValue(t) = <<>>
  /\ ~search(InvoiceNoRe, t).found
  /\ ~search(InvoiceDateRe, t).found
  /\ ~search(CustomerRe, t).found
  /\ ~search(TotalRe, t).found
  /\ ~Contains(lower(t), <<"t", "a", "x", " ", "i", "n", "v", "o", "i", "c", "e">>)

OnlyStatus(rec, name, status) ==
  /\ Len(rec) = 2
  /\ Keys(rec) = {K_Filename, K_Status}
  /\ Get(rec, K_Filename) = name
  /\ Get(rec, K_Status) = status

\* C5: the Status of a Record is decided by the resolved text alone: blank
\* text gives exactly {Filename, Status = OCR Failed}; any other text gives
\* Status = Success, and exactly {Filename, Status = Success} when no
\* pattern matched.  (text is the text of the Record appended last.)
C5_StatusByEmptiness ==
  (pc \in {"resolve", "done"} /\ idx > 1) =>
     /\ AllWhitespace(text)
          => OnlyStatus(results[idx - 1], uploaded_files[idx - 1].name, V_OCRFailed)
     /\ ~AllWhitespace(text)
          => /\ WellFormed(results[idx - 1])
             /\ Get(results[idx - 1], K_Status) = V_Success
     /\ (~AllWhitespace(text) /\ NothingMatches(text))
          => OnlyStatus(results[idx - 1], uploaded_files[idx - 1].name, V_Success)

\* An OCR Failed Record for whitespace-only text, then a Success Record
\* without fields for text that no pattern matches.
C5_Witness ==
  /\ pc = "resolve" /\ idx = 3
  /\ Get(results[1], K_Status) = V_OCRFailed
  /\ ~AllWhitespace(text) /\ NothingMatches(text)
  /\ OnlyStatus(results[2], uploaded_files[2].name, V_Success)

\* The number of characters from the first to the last non-whitespace one.
StrippedLen(t) ==
  Cardinality({j \in DOMAIN t :
                 /\ \E a \in 1..j : t[a] \notin Whitespace
                 /\ \E b \in j..Len(t) : t[b] \notin Whitespace})

TextLayer(doc) == doc.pages[1] \o doc.pages[2]

HasPdfName(doc) ==
  /\ Len(doc.name) >= 4
  /\ lower(SubSeq(doc.name, Len(doc.name) - 3, Len(doc.name))) = <<".", "p", "d", "f">>

\* C6: for a PDF the OCR fallback runs if and only if the text layer of
\* the whole document strips to fewer than 100 characters; when it runs
\* the OCR of every page follows the text layer in page order, and when it
\* does not the result is the text layer alone.  OCR that fails can fail
\* the call only when the fallback runs.
C6_FallbackThreshold ==
  /\ (pc = "extract" /\ HasPdfName(uploaded_files[idx])) =>
       /\ fallback <=> StrippedLen(TextLayer(uploaded_files[idx])) < 100
       /\ fallback
            => text = TextLayer(uploaded_files[idx])
                        \o uploaded_files[idx].ocr[1] \o uploaded_files[idx].ocr[2]
       /\ ~fallback => text = TextLayer(uploaded_files[idx])
  /\ (pc = "raised" /\ exc = "ocr" /\ HasPdfName(uploaded_files[idx]))
       => StrippedLen(TextLayer(uploaded_files[idx])) < 100

\* A text layer of more than 100 characters that strips to 99: the
\* fallback ran and the OCR text follows the layer.
C6_Witness ==
  /\ pc = "extract" /\ HasPdfName(uploaded_files[idx])
  /\ fallback
  /\ Len(TextLayer(uploaded_files[idx])) > 100
  /\ StrippedLen(TextLayer(uploaded_files[idx])) = 99
  /\ Len(text) > Len(TextLayer(uploaded_files[idx]))

\* C7: where a targeted pattern matches, the returned FieldMap holds the
\* targeted value under its key, whatever the generic scan stored there.
C7_TargetedWins ==
  epc = "returned" =>
     /\ search(InvoiceNoRe, text).found
          => /\ HasKey(data, K_InvoiceNo)
             /\ Get(data, K_InvoiceNo) = group(search(InvoiceNoRe, text), text, 1)
     /\ search(InvoiceDateRe, text).found
          => /\ HasKey(data, K_InvoiceDate)
             /\ Get(data, K_InvoiceDate) = group(search(InvoiceDateRe, text), text, 1)
     /\ search(CustomerRe, text).found
          => /\ HasKey(data, K_CustomerName)
             /\ Get(data, K_CustomerName) = strip(group(search(CustomerRe, text), text, 2))
     /\ search(TotalRe, text).found
          => /\ HasKey(data, K_TotalAmount)
             /\ Get(data, K_TotalAmount)
                  = float(Remove(group(search(TotalRe, text), text, 2), ","))

\* The generic scan stored another value under Invoice No than the one
\* the FieldMap is returned with.
C7_Witness ==
  /\ epc = "returned"
  /\ search(InvoiceNoRe, text).found
  /\ HasKey(GenericKeyValue(text), K_InvoiceNo)
  /\ Get(GenericKeyValue(text), K_InvoiceNo) # Get(data, K_InvoiceNo)

Holds(d, k, v) == HasKey(d, k) /\ Get(d, k) = v

\* C8: the five-line example yields Invoice No INV-2024-001, Invoice Date
\* 05/06/2024, Customer Name Acme Corp, Total Amount 1250.00 and Invoice
\* Type Tax Invoice, each targeted value ending with its own line.
C8_Example ==
  (epc = "returned" /\ text = ExampleText) =>
     /\ Holds(data, K_InvoiceNo, <<"I", "N", "V", "-", "2", "0", "2", "4", "-", "0", "0", "1">>)
     /\ Holds(data, K_InvoiceDate, <<"0", "5", "/", "0", "6", "/", "2", "0", "2", "4">>)
     /\ Holds(data, K_CustomerName, <<"A", "c", "m", "e", " ", "C", "o", "r", "p">>)
     /\ Holds(data, K_TotalAmount, [mant |-> 1250, exp |-> 0])
     /\ Holds(data, K_InvoiceType, V_TaxInvoice)

CustomerLabels == { <<"c", "u", "s", "t", "o", "m", "e", "r">>, <<"c", "l", "i", "e", "n", "t">>, <<"b", "i", "l", "l", " ", "t", "o">> }

StartsWith(t, a, w) == a + Len(w) - 1 <= Len(t) /\ SubSeq(t, a, a + Len(w) - 1) = w

\* One of the labels, then an optional colon or hyphen (spaces around it
\* allowed), then a letter.
HasCustomerLabel(t) ==
  \E w \in CustomerLabels : \E a \in DOMAIN t :
     /\ StartsWith(lower(t), a, w)
     /\ \E b \in (a + Len(w))..Len(t) :
          /\ t[b] \in Letters
          /\ \A j \in (a + Len(w))..(b - 1) : t[j] \in {" ", ":", "-"}
          /\ Cardinality({j \in (a + Len(w))..(b - 1) : t[j] \in {":", "-"}}) <= 1

\* C9: the customer-name override fires for Customer, Client and Bill To
\* with or without the word Name, and its value is letters and spaces.
C9_CustomerLabels ==
  (epc = "returned" /\ HasCustomerLabel(text)) =>
     /\ HasKey(data, K_CustomerName)
     /\ \A j \in DOMAIN Get(data, K_CustomerName) :
          Get(data, K_CustomerName)[j] \in Letters \cup {" "}

\* A text of one line, trimmed and long enough for the generic scan.
OneLine(t) == "\n" \notin Range(t) /\ Len(strip(t)) > 2

SeparatorsOf(l) == {j \in DOMAIN l : l[j] \in {":", "-"}}

FirstSeparator(l) == CHOOSE p \in SeparatorsOf(l) : \A q \in SeparatorsOf(l) : p <= q

LabelCharacter(c) == c \in Letters \cup Whitespace \cup {".", "-", "%", "/"}

SplitAt(l, p) ==
  <<[k |-> title(strip(SubSeq(l, 1, p - 1))), v |-> strip(SubSeq(l, p + 1, Len(l)))]>>

\* The pair is kept when the name is under 40 and the value under 120
\* characters long.
Kept(pair) == IF Len(pair[1].k) < 40 /\ Len(pair[1].v) < 120 THEN pair ELSE <<>>

\* C10 as claimed: a line with more than one separator is split at its
\* first separator.
C10_FirstSeparator ==
  (/\ epc = "scanned" /\ OneLine(text)
   /\ Cardinality(SeparatorsOf(strip(text))) > 1
   /\ FirstSeparator(strip(text)) > 1
   /\ \A j \in 1..(FirstSeparator(strip(text)) - 1) : LabelCharacter(strip(text)[j]))
  => data = SplitAt(strip(text), FirstSeparator(strip(text)))

\* The separators that have only label characters before them and at
\* least one character after them.
SplitPoints(l) ==
  {p \in SeparatorsOf(l) :
     /\ 1 < p /\ p < Len(l)
     /\ \A j \in 1..(p - 1) : LabelCharacter(l[j])}

LastSplitPoint(l) == CHOOSE p \in SplitPoints(l) : \A q \in SplitPoints(l) : p >= q

\* C10 amended: the label is greedy, so a line is split at the last
\* separator that has only label characters before it and some character
\* after it (the pair kept under the two length limits); a line without
\* such a separator gives no field.
C10_LastSplitPoint ==
  (epc = "scanned" /\ OneLine(text)) =>
     IF SplitPoints(strip(text)) = {} THEN data = <<>>
     ELSE data = Kept(SplitAt(strip(text), LastSplitPoint(strip(text))))

\* A line with a hyphen and then a colon, split at the colon: the hyphen
\* stays in the field name.
C10_Witness ==
  /\ epc = "scanned" /\ OneLine(text)
  /\ Len(data) = 1
  /\ "-" \in Range(data[1].k)
  /\ LastSplitPoint(strip(text)) > FirstSeparator(strip(text))
  /\ strip(text)[LastSplitPoint(strip(text))] = ":"

====
